---- MODULE Spec2Model ----
(***************************************************************************)
(* The file clients of the Needle SDK: NeedleFiles (v2) and                *)
(* NeedleCollectionsFiles (v1).  One client instance, the platform's file  *)
(* set behind the transport, and the add-by-URL workflow with its          *)
(* indexing poll, one step per transport request.                          *)
(***************************************************************************)
EXTENDS Integers, Sequences, FiniteSets, TLC

\* ---------------------------------------------------------------- bounds
\* Files the platform creates during a run (on top of those it starts with).
MaxFiles == 2
\* Poll-phase list requests one v1 add_url call may send.
MaxPolls == 2

\* ------------------------------------------------------------ value sets
\* Python's None, for the collection ids (strings).
None == "None"
\* dict.get's None for a file id (server ids are positive).
NoId == 0
\* The client classes.
Apis == {"v1", "v2"}
\* The terminal statuses of a file; "indexing" is the other status.
Terminal == {"indexed", "error"}

\* The worlds a client is constructed in: the collections the platform hosts,
\* the files it already holds, and the URLs the caller works with.
\*   OpenWorld: two empty collections, two URLs.
\*   DupWorld:  one collection that already holds two files of the same name
\*              (add never checks names), one errored and one indexed.
OpenWorld ==
    [seed |-> <<>>, colls |-> {"c1", "c2"}, urls |-> {"u1", "u2"}]

DupWorld ==
    [seed |-> <<[id |-> 1, name |-> "u1", coll |-> "c1", status |-> "error"],
                [id |-> 2, name |-> "u1", coll |-> "c1", status |-> "indexed"]>>,
     colls |-> {"c1"}, urls |-> {"u1"}]

\*   EmptyNameWorld: one empty collection; the caller also passes the empty
\*              string where a name or URL is expected.
EmptyNameWorld ==
    [seed |-> <<>>, colls |-> {"c1"}, urls |-> {"u1", ""}]

\* Two collections and one URL: what two tasks on one client contend for.
SharedWorld == [seed |-> <<>>, colls |-> {"c1", "c2"}, urls |-> {"u1"}]

Worlds == {OpenWorld, DupWorld}

VARIABLES
    world,          \* the world chosen at construction (never changes)
    api,            \* which client class the instance is (never changes)
    collection_id,  \* self.collection_id
    files,          \* the platform's files, in creation (listing) order
    nextId,         \* the next id the platform assigns
    pc,             \* position of the add-by-URL call in flight, or "idle"
    call,           \* the public call in flight or last made, with its arguments
    file_id,        \* add_file_from_url's local file_id
    all_files,      \* _wait_for_indexing's local all_files
    reqs,           \* transport requests of the call in `call`, with responses
    result,         \* how the call ended: "none" while running
    error_files,    \* names printed by "Files failed to index"
    success,        \* "Successfully added" was printed
    lastSel,        \* id of the most recent update_collection_id / list-with-id
    seen,           \* ids of the files named file_url in the existence listing
    addedId         \* id the platform gave the file this add-by-URL call added

vars == <<world, api, collection_id, files, nextId, pc, call, file_id,
          all_files, reqs, result, error_files, success, lastSel, seen,
          addedId>>

\* Collections that exist on the platform.
CollIds == world.colls
\* Strings a caller may pass as a collection id.
CollArgs == CollIds \cup {""}
\* File URLs (and names) a caller may pass.
Urls == world.urls
\* FileToAdd values a caller may pass to add.
FilesToAdd == {[name |-> u, url |-> u] : u \in Urls}
\* File ids a caller may pass to delete.
FileIds == 1..(Len(world.seed) + MaxFiles)

\* ------------------------------------------------------- python helpers
\* `not x` is False: x is neither None nor the empty string.
Truthy(x) == x # None /\ x # ""

\* `if file_id:` for the value dict.get returned.
TruthyId(i) == i # NoId

Max(S) == CHOOSE m \in S : \A x \in S : x <= m

\* ------------------------------------------------------------- platform
\* GET .../collections/{c}/files: the collection's files, in listing order.
FilesOf(c) == SelectSeq(files, LAMBDA f : f.coll = c)

\* POST: one new file per FileToAdd, status indexing, ids from nextId on.
PlatformAdd(c, fs) ==
    files \o [i \in 1..Len(fs) |->
                [id |-> nextId + i - 1, name |-> fs[i].name,
                 coll |-> c, status |-> "indexing"]]

\* DELETE with file_ids: those files of collection c are gone.
PlatformDelete(c, ids) ==
    SelectSeq(files, LAMBDA f : ~(f.coll = c /\ f.id \in ids))

\* Status codes the platform may answer a request on collection c with.
Codes(c) == IF c \in CollIds THEN {200, 400} ELSE {404}

\* Variant of Failed: `>` for `>=`.
FailedAbove400(code) == code > 400

\* `resp.status_code >= 400`.
Failed(code) == code >= 400

Req(method, c, phase, ids, fs, code) ==
    [method |-> method, coll |-> c, phase |-> phase,
     file_ids |-> ids, files |-> fs, status |-> code]

FileToAdd(name, url) == [name |-> name, url |-> url]

\* -------------------------------------------------------- client helpers
\* Variant of ListAmbient: `if collection_id:` (truthiness) for `is not None`.
ListAmbientTruthy(cid) == IF Truthy(cid) THEN cid ELSE collection_id

\* list: `if collection_id is not None: self.collection_id = collection_id`.
ListAmbient(cid) == IF cid # None THEN cid ELSE collection_id

\* Variant of DeleteRejects: `is None` for `not`.
DeleteRejectsNoneOnly == collection_id = None

\* delete / delete_file: `if not self.collection_id: raise ValueError`.
DeleteRejects == ~Truthy(collection_id)

\* Variant of UrlRejects: `is None` for `not`.
UrlRejectsNoneOnly(cid) ==
    IF api = "v2" THEN collection_id = None
    ELSE collection_id = None \/ Truthy(cid)

\* add_file_from_url / add_url: the guard that raises ValueError at entry.
UrlRejects(cid) ==
    IF api = "v2" THEN ~Truthy(collection_id)
    ELSE ~Truthy(collection_id) \/ Truthy(cid)

\* Variant of FilesInfoGet: the first entry of a name is kept.
FilesInfoGetFirst(listing, name) ==
    LET idx == {i \in DOMAIN listing : listing[i].name = name}
    IN  IF idx = {} THEN NoId
        ELSE listing[CHOOSE m \in idx : \A x \in idx : m <= x].id

\* {f.name: f.id for f in listing}.get(name): a later entry overwrites.
FilesInfoGet(listing, name) ==
    LET idx == {i \in DOMAIN listing : listing[i].name = name}
    IN  IF idx = {} THEN NoId ELSE listing[Max(idx)].id

\* Variant of ExistsBranch: the overwrite flag is never consulted.
ExistsBranchNoConflict(fid, ow) == IF TruthyId(fid) THEN "delete" ELSE "add"

\* Variant of ExistsBranch: overwrite adds without deleting first.
ExistsBranchSkipDelete(fid, ow) ==
    IF TruthyId(fid) THEN (IF ~ow THEN "conflict" ELSE "add") ELSE "add"

\* `if file_id: if not overwrite: raise ValueError(...); self.delete(...)`.
ExistsBranch(fid, ow) ==
    IF TruthyId(fid) THEN (IF ~ow THEN "conflict" ELSE "delete") ELSE "add"

\* Variant of PollTargets: the whole collection, as in v1.
PollTargetsWhole(listing, file_name) == listing

\* _wait_for_indexing: the files the loop looks at.
PollTargets(listing, file_name) ==
    IF api = "v2" /\ file_name # None
    THEN SelectSeq(listing, LAMBDA f : f.name = file_name)
    ELSE listing

\* Variant of LoopDone: an empty listing is not a finished one.
LoopDoneNonEmpty(fs) ==
    fs # <<>> /\ \A i \in DOMAIN fs : fs[i].status \in {"indexed", "error"}

\* Variant of LoopDone: any() for all().
LoopDoneAny(fs) ==
    IF api = "v2"
    THEN \E i \in DOMAIN fs : fs[i].status \in {"indexed", "error"}
    ELSE \E i \in DOMAIN fs : fs[i].status = "indexed"

\* _wait_for_indexing: the loop's exit test.
LoopDone(fs) ==
    IF api = "v2"
    THEN \A i \in DOMAIN fs : fs[i].status \in {"indexed", "error"}
    ELSE \A i \in DOMAIN fs : fs[i].status = "indexed"

\* Variant of ErrorFiles: the `if f.status == "error"` filter is missing.
ErrorFilesAll(fs) == [i \in DOMAIN fs |-> fs[i].name]

\* [f.name for f in all_files if f.status == "error"].
ErrorFiles(fs) ==
    LET bad == SelectSeq(fs, LAMBDA f : f.status = "error")
    IN  [i \in DOMAIN bad |-> bad[i].name]

\* Variant of AfterSleep: the loop goes back to submitting the add (a retry).
AfterSleepResubmit == "add"

\* After sleep(check_interval): v1 lists again inside the loop, v2 has listed
\* once, before the loop, and only tests again.
AfterSleep == IF api = "v2" THEN "check" ELSE "polllist"

NewCall(op, url, ow, cid) ==
    [op |-> op, url |-> url, overwrite |-> ow, cid |-> cid,
     entry |-> collection_id]

ResetLocals ==
    /\ file_id' = NoId
    /\ all_files' = <<>>
    /\ error_files' = <<>>
    /\ success' = FALSE
    /\ seen' = {}
    /\ addedId' = NoId

PollCount == Cardinality({i \in DOMAIN reqs : reqs[i].phase = "poll"})

\* ----------------------------------------------------------------- init
Init ==
    /\ world \in Worlds
    /\ api \in Apis
    /\ collection_id = None
    /\ files = world.seed
    /\ nextId = Len(world.seed) + 1
    /\ pc = "idle"
    /\ call = [op |-> "none", url |-> None, overwrite |-> FALSE,
               cid |-> None, entry |-> None]
    /\ file_id = NoId
    /\ all_files = <<>>
    /\ reqs = <<>>
    /\ result = "none"
    /\ error_files = <<>>
    /\ success = FALSE
    /\ lastSel = None
    /\ seen = {}
    /\ addedId = NoId

\* -------------------------------------------------------- public calls
update_collection_id(id) ==
    /\ pc = "idle"
    /\ call' = NewCall("setCollection", None, FALSE, id)
    /\ collection_id' = id
    /\ lastSel' = id
    /\ reqs' = <<>>
    /\ result' = "ok"
    /\ ResetLocals
    /\ UNCHANGED <<world, api, files, nextId, pc>>

list(cid) ==
    /\ pc = "idle"
    /\ call' = NewCall("list", None, FALSE, cid)
    /\ collection_id' = ListAmbient(cid)
    /\ lastSel' = IF cid # None THEN cid ELSE lastSel
    /\ \E code \in Codes(ListAmbient(cid)) :
         /\ reqs' = <<Req("GET", ListAmbient(cid), "direct", {}, <<>>, code)>>
         /\ result' = IF Failed(code) THEN "Error" ELSE "ok"
    /\ ResetLocals
    /\ UNCHANGED <<world, api, files, nextId, pc>>

\* Variant of add: the call also selects its collection as the ambient one.
addSetsAmbient(cid, fs) ==
    /\ pc = "idle"
    /\ call' = NewCall("add", None, FALSE, cid)
    /\ \E code \in Codes(cid) :
         /\ reqs' = <<Req("POST", cid, "direct", {}, fs, code)>>
         /\ IF Failed(code)
            THEN /\ result' = "Error"
                 /\ UNCHANGED <<files, nextId>>
            ELSE /\ nextId + Len(fs) - 1 <= Len(world.seed) + MaxFiles
                 /\ result' = "ok"
                 /\ files' = PlatformAdd(cid, fs)
                 /\ nextId' = nextId + Len(fs)
    /\ collection_id' = cid
    /\ ResetLocals
    /\ UNCHANGED <<world, api, pc, lastSel>>

add(cid, fs) ==
    /\ pc = "idle"
    /\ call' = NewCall("add", None, FALSE, cid)
    /\ \E code \in Codes(cid) :
         /\ reqs' = <<Req("POST", cid, "direct", {}, fs, code)>>
         /\ IF Failed(code)
            THEN /\ result' = "Error"
                 /\ UNCHANGED <<files, nextId>>
            ELSE /\ nextId + Len(fs) - 1 <= Len(world.seed) + MaxFiles
                 /\ result' = "ok"
                 /\ files' = PlatformAdd(cid, fs)
                 /\ nextId' = nextId + Len(fs)
    /\ ResetLocals
    /\ UNCHANGED <<world, api, collection_id, pc, lastSel>>

delete_file(ids) ==
    /\ pc = "idle"
    /\ call' = NewCall("delete", None, FALSE, None)
    /\ IF DeleteRejects
       THEN /\ result' = "ValueError"
            /\ reqs' = <<>>
            /\ UNCHANGED files
       ELSE \E code \in Codes(collection_id) :
              /\ reqs' = <<Req("DELETE", collection_id, "direct", ids, <<>>, code)>>
              /\ result' = IF Failed(code) THEN "RequestException" ELSE "ok"
              /\ files' = IF Failed(code) THEN files
                          ELSE PlatformDelete(collection_id, ids)
    /\ ResetLocals
    /\ UNCHANGED <<world, api, collection_id, nextId, pc, lastSel>>

\* ------------------------------------------------- the add-by-URL call
\* Entry: the guard, and v1's `elif collection_id:` branch.
add_file_from_url(url, cid, ow) ==
    /\ pc = "idle"
    /\ api = "v2" => cid = None
    /\ call' = NewCall("addFromUrl", url, ow, cid)
    /\ reqs' = <<>>
    /\ ResetLocals
    /\ IF UrlRejects(cid)
       THEN /\ result' = "ValueError"
            /\ pc' = "idle"
            /\ UNCHANGED collection_id
       ELSE /\ result' = "none"
            /\ pc' = "exists"
            /\ collection_id' = IF api = "v1" /\ Truthy(cid) THEN cid
                                ELSE collection_id
    /\ UNCHANGED <<world, api, files, nextId, lastSel>>

\* files_info = {f.name: f.id for f in self.list(...)}; the exists branch.
ExistenceCheck ==
    /\ pc = "exists"
    /\ LET arg == IF api = "v2" THEN None ELSE collection_id
           tgt == ListAmbient(arg)
       IN  /\ collection_id' = tgt
           /\ lastSel' = IF arg # None THEN arg ELSE lastSel
           /\ \E code \in Codes(tgt) :
                /\ reqs' = Append(reqs, Req("GET", tgt, "exists", {}, <<>>, code))
                /\ IF Failed(code)
                   THEN /\ result' = "Error"
                        /\ pc' = "idle"
                        /\ UNCHANGED <<file_id, seen>>
                   ELSE LET listing == FilesOf(tgt)
                            fid == FilesInfoGet(listing, call.url)
                            branch == ExistsBranch(fid, call.overwrite)
                        IN  /\ file_id' = fid
                            /\ seen' = {listing[i].id : i \in
                                   {j \in DOMAIN listing : listing[j].name = call.url}}
                            /\ result' = IF branch = "conflict" THEN "ValueError"
                                         ELSE "none"
                            /\ pc' = IF branch = "conflict" THEN "idle" ELSE branch
    /\ UNCHANGED <<world, api, files, nextId, call, all_files, error_files,
                   success, addedId>>

\* self.delete_file([file_id]) on the overwrite path.
OverwriteDelete ==
    /\ pc = "delete"
    /\ IF DeleteRejects
       THEN /\ result' = "ValueError"
            /\ pc' = "idle"
            /\ UNCHANGED <<reqs, files>>
       ELSE \E code \in Codes(collection_id) :
              /\ reqs' = Append(reqs, Req("DELETE", collection_id, "overwrite",
                                          {file_id}, <<>>, code))
              /\ IF Failed(code)
                 THEN /\ result' = "RequestException"
                      /\ pc' = "idle"
                      /\ UNCHANGED files
                 ELSE /\ result' = "none"
                      /\ pc' = "add"
                      /\ files' = PlatformDelete(collection_id, {file_id})
    /\ UNCHANGED <<world, api, collection_id, nextId, call, file_id, all_files,
                   error_files, success, lastSel, seen, addedId>>

\* Variant of SubmitAdd: the add goes to the collection the call started on.
SubmitAddToEntry ==
    /\ pc = "add"
    /\ LET fs == <<FileToAdd(call.url, call.url)>>
       IN  \E code \in Codes(call.entry) :
             /\ reqs' = Append(reqs, Req("POST", call.entry, "add", {}, fs, code))
             /\ IF Failed(code)
                THEN /\ result' = "Error"
                     /\ pc' = "idle"
                     /\ UNCHANGED <<files, nextId, addedId>>
                ELSE /\ nextId <= Len(world.seed) + MaxFiles
                     /\ result' = "none"
                     /\ pc' = "polllist"
                     /\ files' = PlatformAdd(call.entry, fs)
                     /\ nextId' = nextId + 1
                     /\ addedId' = nextId
    /\ UNCHANGED <<world, api, collection_id, call, file_id, all_files,
                   error_files, success, lastSel, seen>>

\* self.add(collection_id=self.collection_id, files=[FileToAdd(url, url)]).
SubmitAdd ==
    /\ pc = "add"
    /\ LET fs == <<FileToAdd(call.url, call.url)>>
       IN  \E code \in Codes(collection_id) :
             /\ reqs' = Append(reqs, Req("POST", collection_id, "add", {}, fs, code))
             /\ IF Failed(code)
                THEN /\ result' = "Error"
                     /\ pc' = "idle"
                     /\ UNCHANGED <<files, nextId, addedId>>
                ELSE /\ nextId <= Len(world.seed) + MaxFiles
                     /\ result' = "none"
                     /\ pc' = "polllist"
                     /\ files' = PlatformAdd(collection_id, fs)
                     /\ nextId' = nextId + 1
                     /\ addedId' = nextId
    /\ UNCHANGED <<world, api, collection_id, call, file_id, all_files,
                   error_files, success, lastSel, seen>>

\* _wait_for_indexing: self.list(self.collection_id) and the name filter.
PollList ==
    /\ pc = "polllist"
    /\ PollCount < MaxPolls
    /\ LET tgt == ListAmbient(collection_id)
       IN  /\ collection_id' = tgt
           /\ lastSel' = IF collection_id # None THEN collection_id ELSE lastSel
           /\ \E code \in Codes(tgt) :
                /\ reqs' = Append(reqs, Req("GET", tgt, "poll", {}, <<>>, code))
                /\ IF Failed(code)
                   THEN /\ result' = "Error"
                        /\ pc' = "idle"
                        /\ UNCHANGED all_files
                   ELSE /\ result' = "none"
                        /\ pc' = "check"
                        /\ all_files' = PollTargets(FilesOf(tgt), call.url)
    /\ UNCHANGED <<world, api, files, nextId, call, file_id, error_files,
                   success, seen, addedId>>

\* The loop's test, the failure report, and the success line after return.
PollCheck ==
    /\ pc = "check"
    /\ IF LoopDone(all_files)
       THEN /\ error_files' = IF api = "v2" THEN ErrorFiles(all_files) ELSE <<>>
            /\ success' = TRUE
            /\ result' = "ok"
            /\ pc' = "idle"
       ELSE /\ pc' = "sleep"
            /\ UNCHANGED <<error_files, success, result>>
    /\ UNCHANGED <<world, api, collection_id, files, nextId, call, file_id,
                   all_files, reqs, lastSel, seen, addedId>>

\* sleep(check_interval), then the next iteration.
PollSleep ==
    /\ pc = "sleep"
    /\ pc' = AfterSleep
    /\ UNCHANGED <<world, api, collection_id, files, nextId, call, file_id,
                   all_files, reqs, result, error_files, success, lastSel, seen,
                   addedId>>

\* ---------------------------------------------------------- environment
\* The platform finishes indexing a file, one way or the other.
Index(i, st) ==
    /\ i \in DOMAIN files
    /\ files[i].status = "indexing"
    /\ files' = [files EXCEPT ![i].status = st]
    /\ UNCHANGED <<world, api, collection_id, nextId, pc, call, file_id,
                   all_files, reqs, result, error_files, success, lastSel, seen,
                   addedId>>

SetCollectionStep == \E id \in CollArgs : update_collection_id(id)

ListStep == \E cid \in CollArgs \cup {None} : list(cid)

AddStep == \E cid \in CollArgs, f \in FilesToAdd : add(cid, <<f>>)

DeleteStep == \E i \in FileIds : delete_file({i})

AddFromUrlStep ==
    \E url \in Urls, cid \in CollArgs \cup {None}, ow \in BOOLEAN :
        add_file_from_url(url, cid, ow)

IndexStep == \E i \in FileIds, st \in Terminal : Index(i, st)

\* The steps of the add-by-URL call in flight.
CallStep ==
    \/ ExistenceCheck
    \/ OverwriteDelete
    \/ SubmitAdd
    \/ PollList
    \/ PollCheck
    \/ PollSleep

Next ==
    \/ SetCollectionStep
    \/ ListStep
    \/ AddStep
    \/ DeleteStep
    \/ AddFromUrlStep
    \/ ExistenceCheck
    \/ OverwriteDelete
    \/ SubmitAdd
    \/ PollList
    \/ PollCheck
    \/ PollSleep
    \/ IndexStep

\* One call chain on the client, the platform indexing on its own.
Spec == Init /\ [][Next]_vars

\* The call in flight keeps running: a blocked or sleeping call resumes.
FairSpec == Spec /\ WF_vars(CallStep)

\* The same client in the world where callers pass empty names and URLs.
InitEmptyName ==
    /\ world = EmptyNameWorld
    /\ api \in Apis
    /\ collection_id = None
    /\ files = world.seed
    /\ nextId = Len(world.seed) + 1
    /\ pc = "idle"
    /\ call = [op |-> "none", url |-> None, overwrite |-> FALSE,
               cid |-> None, entry |-> None]
    /\ file_id = NoId
    /\ all_files = <<>>
    /\ reqs = <<>>
    /\ result = "none"
    /\ error_files = <<>>
    /\ success = FALSE
    /\ lastSel = None
    /\ seen = {}
    /\ addedId = NoId

SpecEmptyName == InitEmptyName /\ [][Next]_vars

\* ---------------------------------------- two tasks sharing the client
\* A second task calls update_collection_id on the same instance while the
\* first task's add-by-URL call is between two of its steps.  The instance
\* holds one collection_id and nothing guards it.
other_update_collection_id(id) ==
    /\ pc # "idle"
    /\ collection_id' = id
    /\ lastSel' = id
    /\ UNCHANGED <<world, api, files, nextId, pc, call, file_id, all_files,
                   reqs, result, error_files, success, seen, addedId>>

\* A second task calls list(cid) on the same instance in the same window;
\* its response goes to that task, its assignment to the shared instance.
other_list(cid) ==
    /\ pc # "idle"
    /\ collection_id' = ListAmbient(cid)
    /\ lastSel' = IF cid # None THEN cid ELSE lastSel
    /\ UNCHANGED <<world, api, files, nextId, pc, call, file_id, all_files,
                   reqs, result, error_files, success, seen, addedId>>

OtherSetCollectionStep == \E id \in CollIds : other_update_collection_id(id)

OtherListStep == \E cid \in CollIds : other_list(cid)

NextShared ==
    \/ SetCollectionStep
    \/ AddFromUrlStep
    \/ ExistenceCheck
    \/ OverwriteDelete
    \/ SubmitAdd
    \/ PollList
    \/ PollCheck
    \/ PollSleep
    \/ OtherSetCollectionStep
    \/ OtherListStep
    \/ IndexStep

\* The shared client starts on the empty platform with its two collections.
InitShared ==
    /\ world = SharedWorld
    /\ api \in Apis
    /\ collection_id = None
    /\ files = world.seed
    /\ nextId = Len(world.seed) + 1
    /\ pc = "idle"
    /\ call = [op |-> "none", url |-> None, overwrite |-> FALSE,
               cid |-> None, entry |-> None]
    /\ file_id = NoId
    /\ all_files = <<>>
    /\ reqs = <<>>
    /\ result = "none"
    /\ error_files = <<>>
    /\ success = FALSE
    /\ lastSel = None
    /\ seen = {}
    /\ addedId = NoId

\* One task adding by URL, another re-targeting the shared client.
SpecShared == InitShared /\ [][NextShared]_vars

\* ------------------------------------------------------------ properties
AllTerminal(fs) == \A i \in DOMAIN fs : fs[i].status \in Terminal

\* The platform's files of the ambient collection that carry the call's URL.
TargetsOnPlatform ==
    {i \in DOMAIN files :
        files[i].coll = collection_id /\ files[i].name = call.url}

\* The delete and add requests of the call, in the order they were sent.
Mutations == SelectSeq(reqs, LAMBDA r : r.method \in {"DELETE", "POST"})

Count(seq, P(_)) == Cardinality({i \in DOMAIN seq : P(seq[i])})

InPollV2 ==
    api = "v2" /\ call.op = "addFromUrl" /\ pc \in {"polllist", "check", "sleep"}

ReturnedV2 ==
    api = "v2" /\ call.op = "addFromUrl" /\ pc = "idle" /\ result = "ok"

\* C1: once every file named file_url is indexed on the platform (so that any
\* list made from then on reports it), the v2 add-by-URL call that is polling
\* eventually ends.  Stated for a call that keeps running (FairSpec).
C1_EventuallyReturns ==
    (InPollV2 /\ addedId # NoId /\ TargetsOnPlatform # {}
        /\ \A i \in TargetsOnPlatform : files[i].status = "indexed")
    ~> (pc = "idle")

\* C2: a v2 add-by-URL call that has returned did not leave the file it added
\* in status indexing: returning implies the added file is indexed or error.
C2_NoReturnWhileIndexing ==
    ReturnedV2 =>
        /\ addedId # NoId
        /\ \A i \in DOMAIN files :
              files[i].id = addedId => files[i].status \in Terminal

\* C2 witness: the call sits in its poll loop while the file it added is
\* still indexing on the platform.
C2_Witness ==
    /\ InPollV2
    /\ pc = "sleep"
    /\ \E i \in DOMAIN files :
          files[i].id = addedId /\ files[i].status = "indexing"

\* C3: add-by-URL without overwrite, ambient collection set, a file named
\* file_url in the existence listing: the call ends with the conflict
\* ValueError and its only transport request is the existence-check GET.
C3_ConflictNoMutation ==
    (call.op = "addFromUrl" /\ ~call.overwrite /\ seen # {}) =>
        /\ pc = "idle"
        /\ result = "ValueError"
        /\ Len(reqs) = 1
        /\ reqs[1].method = "GET"
        /\ reqs[1].phase = "exists"
        /\ Mutations = <<>>

\* C3 witness: such a call has been made, from a set ambient collection.
C3_Witness ==
    /\ call.op = "addFromUrl"
    /\ ~call.overwrite
    /\ seen # {}
    /\ Truthy(call.entry)
    /\ result = "ValueError"

\* C4: add-by-URL with overwrite and a file named file_url in the existence
\* listing: the first mutation is a DELETE of one id of such a file, a POST
\* follows only a successful DELETE and carries FileToAdd(url, url), nothing
\* else is sent, and once the add has succeeded there is exactly one of each.
C4_DeleteThenAdd ==
    (call.op = "addFromUrl" /\ call.overwrite /\ seen # {}) =>
        /\ Len(Mutations) <= 2
        /\ Len(Mutations) >= 1 =>
              /\ Mutations[1].method = "DELETE"
              /\ Cardinality(Mutations[1].file_ids) = 1
              /\ Mutations[1].file_ids \subseteq seen
              /\ Mutations[1].coll = call.entry
        /\ Len(Mutations) = 2 =>
              /\ ~Failed(Mutations[1].status)
              /\ Mutations[2].method = "POST"
              /\ Mutations[2].files = <<FileToAdd(call.url, call.url)>>
              /\ Mutations[2].coll = call.entry
        /\ (addedId # NoId \/ result = "ok") =>
              /\ Len(Mutations) = 2
              /\ ~Failed(Mutations[2].status)

\* C4 witness: an overwriting call over an existing file has run to its end
\* with every request answered below 400.
C4_Witness ==
    /\ call.op = "addFromUrl"
    /\ call.overwrite
    /\ seen # {}
    /\ result = "ok"
    /\ Len(Mutations) = 2
    /\ \A i \in DOMAIN reqs : ~Failed(reqs[i].status)

\* C5: delete with the ambient collection unset (None or "") raises
\* ValueError, sends nothing and leaves collection_id as it was.
C5_DeleteNeedsCollection ==
    (call.op = "delete" /\ ~Truthy(call.entry)) =>
        /\ result = "ValueError"
        /\ reqs = <<>>
        /\ collection_id = call.entry

\* C5 witness: delete was called on a client whose ambient id is "".
C5_Witness ==
    /\ call.op = "delete"
    /\ call.entry = ""
    /\ result = "ValueError"

\* C6: list without an id while the ambient collection is unset fails with a
\* precondition error and sends no request.
C6_ListNeedsCollection ==
    (call.op = "list" /\ call.cid = None /\ ~Truthy(call.entry)) =>
        /\ result = "ValueError"
        /\ reqs = <<>>

\* C7: add-by-URL with the ambient collection unset raises ValueError before
\* any request and leaves collection_id unset.
C7_UrlNeedsCollection ==
    (call.op = "addFromUrl" /\ ~Truthy(call.entry)) =>
        /\ pc = "idle"
        /\ result = "ValueError"
        /\ reqs = <<>>
        /\ collection_id = call.entry

\* C7 witness: the v2 call was made on a client whose ambient id is "".
C7_Witness ==
    /\ api = "v2"
    /\ call.op = "addFromUrl"
    /\ call.entry = ""
    /\ result = "ValueError"

\* C8: the v2 poll leaves its loop exactly when every file it looks at is
\* terminal; it then returns normally and, name by name, reports as many
\* failed entries as files of that name have status error.
C8_MixedReport ==
    /\ (api = "v2" /\ call.op = "addFromUrl" /\ pc = "sleep") =>
          ~AllTerminal(all_files)
    /\ ReturnedV2 =>
          /\ AllTerminal(all_files)
          /\ \A n \in Urls :
                Count(error_files, LAMBDA x : x = n) =
                Count(all_files, LAMBDA f : f.name = n /\ f.status = "error")

\* C8 witness: the call returned over a mix of indexed and error files.
C8_Witness ==
    /\ ReturnedV2
    /\ \E i \in DOMAIN all_files : all_files[i].status = "indexed"
    /\ \E i \in DOMAIN all_files : all_files[i].status = "error"
    /\ error_files # <<>>

\* C9: in v2 the files the poll looks at are terminal exactly when the
\* platform's files named file_url are, whatever the other files' statuses;
\* the loop is left on that test alone.
C9_ScopedToName ==
    /\ [](ReturnedV2 => AllTerminal(all_files))
    /\ []((api = "v2" /\ pc = "sleep") => ~AllTerminal(all_files))
    /\ [][(api = "v2" /\ pc = "polllist" /\ pc' = "check") =>
            (AllTerminal(all_files') <=>
                \A i \in TargetsOnPlatform : files[i].status \in Terminal)]_vars

\* C9 witness: the call returned while a file of another name in the same
\* collection is still indexing.
C9_Witness ==
    /\ ReturnedV2
    /\ \E i \in DOMAIN files :
          /\ files[i].coll = collection_id
          /\ files[i].name # call.url
          /\ files[i].status = "indexing"

\* C10: the ambient id is the id of the most recent update_collection_id or
\* list-with-id; list(id) requests id, list() requests the unchanged ambient id.
C10_AmbientFollowsSelection ==
    /\ collection_id = lastSel
    /\ call.op = "setCollection" => collection_id = call.cid
    /\ (call.op = "list" /\ call.cid # None) =>
          /\ collection_id = call.cid
          /\ Len(reqs) = 1
          /\ reqs[1].coll = call.cid
    /\ (call.op = "list" /\ call.cid = None) =>
          /\ collection_id = call.entry
          /\ Len(reqs) = 1
          /\ reqs[1].coll = call.entry

\* C10 witness: list(id) replaced a different ambient id that was set.
C10_Witness ==
    /\ call.op = "list"
    /\ call.cid # None
    /\ Truthy(call.entry)
    /\ call.entry # call.cid
    /\ collection_id = call.cid

\* C11: for a direct add, list or delete, a response with status >= 400 ends
\* the call with the structured platform Error, and a response below 400
\* never does.
C11_UniformPlatformError ==
    (call.op \in {"add", "list", "delete"} /\ Len(reqs) = 1) =>
        (reqs[1].status >= 400 <=> result = "Error")

\* Transport requests of the call sent in phase ph.
PhaseCount(ph) == Count(reqs, LAMBDA r : r.phase = ph)

\* The add-by-URL entry guard fails for the arguments and ambient id at entry.
EntryRejected ==
    ~Truthy(call.entry) \/ (api = "v1" /\ Truthy(call.cid))

\* C12: add and list send exactly one request, delete one (none when its guard
\* fails); an add-by-URL call sends one existence-check GET once it is past its
\* guard, at most one DELETE and at most one POST, and nothing but these and
\* its poll-phase GETs.
C12_NoRetry ==
    /\ call.op = "add" => (Len(reqs) = 1 /\ reqs[1].method = "POST")
    /\ call.op = "list" => (Len(reqs) = 1 /\ reqs[1].method = "GET")
    /\ call.op = "delete" =>
          /\ Len(reqs) = (IF ~Truthy(call.entry) THEN 0 ELSE 1)
          /\ \A i \in DOMAIN reqs : reqs[i].method = "DELETE"
    /\ call.op = "addFromUrl" =>
          /\ PhaseCount("exists") =
                (IF EntryRejected \/ pc = "exists" THEN 0 ELSE 1)
          /\ PhaseCount("overwrite") <= 1
          /\ PhaseCount("add") <= 1
          /\ Len(reqs) = PhaseCount("exists") + PhaseCount("overwrite")
                           + PhaseCount("add") + PhaseCount("poll")
          /\ \A i \in DOMAIN reqs :
                reqs[i].method =
                    (IF reqs[i].phase = "overwrite" THEN "DELETE"
                     ELSE IF reqs[i].phase = "add" THEN "POST" ELSE "GET")

\* C12 witness: a v1 call has sent its poll-phase GET twice and each of the
\* other requests once.
C12_Witness ==
    /\ api = "v1"
    /\ call.op = "addFromUrl"
    /\ PhaseCount("poll") > 1
    /\ PhaseCount("exists") = 1
    /\ PhaseCount("overwrite") = 1
    /\ PhaseCount("add") = 1

\* C13: add never sends a FileToAdd whose name or url is empty: a file list
\* holding one is rejected before any transport request.
C13_AddValidates ==
    call.op = "add" =>
        \A i \in DOMAIN reqs : \A j \in DOMAIN reqs[i].files :
            reqs[i].files[j].name # "" /\ reqs[i].files[j].url # ""

\* C14: v1 add_url ends with ValueError only when neither an ambient id nor a
\* collection_id argument is there, or when the file exists and overwrite is
\* off; given a collection_id argument it makes it the ambient id and goes
\* on to the existence check.
C14_ArgumentSelects ==
    (api = "v1" /\ call.op = "addFromUrl") =>
        /\ result = "ValueError" =>
              \/ ~Truthy(call.entry) /\ ~Truthy(call.cid)
              \/ seen # {} /\ ~call.overwrite
        /\ Truthy(call.cid) =>
              /\ collection_id = call.cid
              /\ pc = "exists" \/ PhaseCount("exists") = 1

\* C15: in an add-by-URL call a request answered with status >= 400 is the
\* last one the call sends: the call has ended with that request's error
\* (RequestException from the delete, Error from a list or the add) and has
\* not reported success.
C15_FailureStopsCall ==
    call.op = "addFromUrl" =>
        \A i \in DOMAIN reqs :
            reqs[i].status >= 400 =>
                /\ i = Len(reqs)
                /\ pc = "idle"
                /\ result = (IF reqs[i].phase = "overwrite"
                             THEN "RequestException" ELSE "Error")
                /\ ~success

\* C15 witness: the overwrite delete of a call failed, and no add followed.
C15_Witness ==
    /\ call.op = "addFromUrl"
    /\ Len(reqs) = 2
    /\ reqs[2].phase = "overwrite"
    /\ reqs[2].status >= 400
    /\ result = "RequestException"
    /\ PhaseCount("add") = 0

\* C17: when an add-by-URL call (v2) has returned from its poll with a
\* non-empty list of failed names, it has not also reported success.
C17_FailureReplacesSuccess ==
    (ReturnedV2 /\ error_files # <<>>) => ~success

\* C19: add(collection_id, files) sends its one request to the collection it
\* is given, whatever the ambient id is, and leaves the ambient id as it
\* found it, on success and on failure; a delete that comes next therefore
\* targets the ambient id from before the add, or is rejected when there was
\* none.
C19_AddLeavesAmbient ==
    /\ [](call.op = "add" =>
            /\ collection_id = call.entry
            /\ Len(reqs) = 1
            /\ reqs[1].coll = call.cid)
    /\ [][(call.op = "add" /\ call'.op = "delete") =>
            IF Truthy(call.entry)
            THEN Len(reqs') = 1 /\ reqs'[1].coll = call.entry
            ELSE reqs' = <<>> /\ result' = "ValueError"]_vars

\* C19 witness: add(c2, ...) succeeded on a client whose ambient id is c1,
\* and the ambient id is still c1.
C19_Witness ==
    /\ call.op = "add"
    /\ call.entry = "c1"
    /\ call.cid = "c2"
    /\ result = "ok"
    /\ collection_id = "c1"
    /\ \E i \in DOMAIN files : files[i].coll = "c2"

TargetIds == {files[i].id : i \in TargetsOnPlatform}

PolledIds == {all_files[i].id : i \in DOMAIN all_files}

\* C20: an overwriting add-by-URL call whose existence check saw k > 1 files
\* of the name deletes exactly the one listed last (the platform lists in
\* creation order, so the one of greatest id) and no other; the other k-1 are
\* on the platform when the add is sent, there are k files of the name once
\* the add has succeeded, and the poll's listing holds the k-1 old ones
\* together with the new one.
C20_DuplicatesSurvive ==
    (call.op = "addFromUrl" /\ call.overwrite /\ Cardinality(seen) > 1) =>
        LET kept == seen \ {Max(seen)}
        IN  /\ file_id = Max(seen)
            /\ \A i \in DOMAIN reqs :
                   reqs[i].phase = "overwrite" => reqs[i].file_ids = {Max(seen)}
            /\ PhaseCount("overwrite") <= 1
            /\ pc = "add" => TargetIds = kept
            /\ addedId # NoId =>
                   /\ TargetIds = kept \cup {addedId}
                   /\ Cardinality(TargetIds) = Cardinality(seen)
            /\ (pc \in {"check", "sleep"} \/ (pc = "idle" /\ result = "ok")) =>
                   /\ kept \cup {addedId} \subseteq PolledIds
                   /\ api = "v2" => PolledIds = kept \cup {addedId}

\* C20 witness: a v2 overwrite of a name held by two files has returned; one
\* old file and the new one are on the platform and were both polled.
C20_Witness ==
    /\ ReturnedV2
    /\ call.overwrite
    /\ Cardinality(seen) = 2
    /\ Cardinality(TargetIds) = 2
    /\ PolledIds = TargetIds
    /\ addedId \in PolledIds
    /\ seen \cap PolledIds # {}

PollListedNothing ==
    /\ api = "v2"
    /\ call.op = "addFromUrl"
    /\ addedId # NoId
    /\ PhaseCount("poll") = 1
    /\ reqs[Len(reqs)].phase = "poll"
    /\ reqs[Len(reqs)].status < 400
    /\ all_files = <<>>

\* C16: when the list taken at the start of the v2 poll holds no file of the
\* name, the call never sleeps: the test over the empty listing passes at
\* once and the call returns normally, reports success and names no failed
\* file, having polled no file at all.
C16_EmptyPollReturns ==
    PollListedNothing =>
        /\ pc \in {"check", "idle"}
        /\ pc = "idle" =>
               /\ result = "ok"
               /\ success
               /\ error_files = <<>>
               /\ addedId \notin PolledIds

\* C16 witness: the call has returned with success after an empty poll
\* listing while the file it added is on the platform and still indexing.
C16_Witness ==
    /\ PollListedNothing
    /\ pc = "idle"
    /\ success
    /\ \E i \in DOMAIN files :
           files[i].id = addedId /\ files[i].status = "indexing"

\* C18: on a client shared by two tasks, a change of the ambient id made
\* while an add-by-URL call is between two steps leaves that call running as
\* it was, and every request the call sends from then on (delete, add, poll
\* list) goes to the ambient id of the moment it is sent, not to the
\* collection the call started on.
C18_RequestsFollowAmbient ==
    /\ [][(pc # "idle" /\ collection_id' # collection_id) =>
              /\ pc' = pc
              /\ call' = call
              /\ reqs' = reqs
              /\ file_id' = file_id]_vars
    /\ [][(call.op = "addFromUrl" /\ call' = call
              /\ Len(reqs') = Len(reqs) + 1) =>
              reqs'[Len(reqs')].coll = collection_id]_vars

\* C18 witness: one call listed c1 for its existence check, found the file
\* there, and then sent its delete, its add and its poll list to c2, where
\* the new file now is.
C18_Witness ==
    /\ call.op = "addFromUrl"
    /\ call.entry = "c1"
    /\ Len(reqs) = 4
    /\ reqs[1].phase = "exists" /\ reqs[1].coll = "c1"
    /\ reqs[2].phase = "overwrite" /\ reqs[2].coll = "c2"
    /\ reqs[3].phase = "add" /\ reqs[3].coll = "c2"
    /\ reqs[4].phase = "poll" /\ reqs[4].coll = "c2"
    /\ \A i \in DOMAIN reqs : reqs[i].status < 400
    /\ seen # {}
    /\ \E i \in DOMAIN files : files[i].id = addedId /\ files[i].coll = "c2"
    /\ \E i \in DOMAIN files : files[i].id = file_id /\ files[i].coll = "c1"

====
